---- MODULE Spec2Model ----
(***************************************************************************)
(* Model of fileConvert.py: count_records, csv_to_json and json_to_csv,    *)
(* driven in the order main.py calls them.                                 *)
(*                                                                         *)
(* Text is modelled as a sequence of one-character strings so that         *)
(* str.strip() can be computed.  A Python value is a record                *)
(*   [kind |-> "str" | "none" | "list", s |-> chars, items |-> cells]      *)
(* A Python dict is a sequence of <<key, value>> pairs with distinct keys, *)
(* in insertion order.                                                     *)
(***************************************************************************)
EXTENDS Naturals, Sequences, FiniteSets

VARIABLES csvFile, recordCount, jsonFile, csvOut, pc, err

vars == <<csvFile, recordCount, jsonFile, csvOut, pc, err>>

(***************************************************************************)
(* Bounds of the model.                                                    *)
(***************************************************************************)
MaxRows == 2

MaxRecords == 2

(***************************************************************************)
(* Python values.                                                          *)
(***************************************************************************)
Str(chars) == [kind |-> "str", s |-> chars, items |-> <<>>]

None == [kind |-> "none", s |-> <<>>, items |-> <<>>]

List(cells) == [kind |-> "list", s |-> <<>>, items |-> cells]

\* The key DictReader files surplus cells under (restkey = None).
NoneKey == "<None>"

\* A lone surrogate, which json.load accepts and the utf-8 codec rejects.
Surrogate == "\\ud800"

IsSpace(c) == c \in {" ", "\t", "\r", "\n"}

RECURSIVE lstrip(_)
lstrip(chars) ==
    IF chars # <<>> /\ IsSpace(Head(chars)) THEN lstrip(Tail(chars)) ELSE chars

RECURSIVE rstrip(_)
rstrip(chars) ==
    IF chars # <<>> /\ IsSpace(chars[Len(chars)])
    THEN rstrip(SubSeq(chars, 1, Len(chars) - 1))
    ELSE chars

\* str.strip()
strip(chars) == rstrip(lstrip(chars))

\* bool(v)
Truthy(v) ==
    CASE v.kind = "str" -> v.s # <<>>
      [] v.kind = "none" -> FALSE
      [] v.kind = "list" -> v.items # <<>>

(***************************************************************************)
(* Python dicts.                                                           *)
(***************************************************************************)
DictHas(d, k) == \E i \in 1..Len(d) : d[i][1] = k

DictGet(d, k, default) ==
    IF DictHas(d, k) THEN d[CHOOSE i \in 1..Len(d) : d[i][1] = k][2] ELSE default

\* d[k] = v: an existing key keeps its position, a new key goes last.
DictSet(d, k, v) ==
    IF DictHas(d, k)
    THEN [i \in 1..Len(d) |-> IF d[i][1] = k THEN <<k, v>> ELSE d[i]]
    ELSE Append(d, <<k, v>>)

RECURSIVE DictUpdate(_, _)
DictUpdate(d, other) ==
    IF other = <<>> THEN d
    ELSE DictUpdate(DictSet(d, Head(other)[1], Head(other)[2]), Tail(other))

DictKeys(d) == [i \in 1..Len(d) |-> d[i][1]]

KeySet(d) == {d[i][1] : i \in 1..Len(d)}

(***************************************************************************)
(* The fixed tables.                                                       *)
(***************************************************************************)
\* header_mapping with the document name of its first entry misspelt.
header_mapping_misspelt ==
    << <<"Supplier Company", "companyname">>,
       <<"Supplier First Name", "firstName">>,
       <<"Supplier Last Name", "lastName">>,
       <<"Supplier Email", "emailAddress">>,
       <<"Supplier Phone", "phone">>,
       <<"Supplier Street", "companyStreet">>,
       <<"Supplier City", "companyCity">>,
       <<"Supplier State", "companyState">>,
       <<"Supplier Zip Code", "companyZipCode">>,
       <<"Supplier Country", "companyCountry">>,
       <<"Site Name", "siteName">>,
       <<"Site ID", "siteID">>,
       <<"Additional Contact Info", "additionalContactInfo">> >>

header_mapping ==
    << <<"Supplier Company", "companyName">>,
       <<"Supplier First Name", "firstName">>,
       <<"Supplier Last Name", "lastName">>,
       <<"Supplier Email", "emailAddress">>,
       <<"Supplier Phone", "phone">>,
       <<"Supplier Street", "companyStreet">>,
       <<"Supplier City", "companyCity">>,
       <<"Supplier State", "companyState">>,
       <<"Supplier Zip Code", "companyZipCode">>,
       <<"Supplier Country", "companyCountry">>,
       <<"Site Name", "siteName">>,
       <<"Site ID", "siteID">>,
       <<"Additional Contact Info", "additionalContactInfo">> >>

Empty == Str(<<>>)

Success == Str(<<"S", "u", "c", "c", "e", "s", "s">>)

new_json_values ==
    << <<"zi_c_name", Empty>>,
       <<"zi_c_company_id", Empty>>,
       <<"jobTitle", Empty>>,
       <<"zi_c_company_name", Empty>>,
       <<"zi_c_phone", Empty>>,
       <<"zi_c_url", Empty>>,
       <<"zi_c_linkedin_url", Empty>>,
       <<"zi_c_naics6", Empty>>,
       <<"sectorTitle", Empty>>,
       <<"primaryIndustry", Empty>>,
       <<"zi_c_employees", Empty>>,
       <<"zi_c_street", Empty>>,
       <<"zi_c_city", Empty>>,
       <<"zi_c_state", Empty>>,
       <<"zi_c_zip", Empty>>,
       <<"zi_c_country", Empty>>,
       <<"zi_c_location_id", Empty>>,
       <<"needsContact", Empty>>,
       <<"newContactFound", Empty>>,
       <<"personId", Empty>>,
       <<"contactMatchCriteria", Empty>>,
       <<"enrichmentStatus", Success>>,
       <<"errorMessage", Empty>> >>

csv_mapping ==
    << <<"companyName", "Supplier Company">>,
       <<"companyStreet", "Supplier Street">>,
       <<"companyCity", "Supplier City">>,
       <<"companyState", "Supplier State">>,
       <<"companyZipCode", "Supplier Zip Code">>,
       <<"companyCountry", "Supplier Country">>,
       <<"firstName", "Supplier First Name">>,
       <<"lastName", "Supplier Last Name">>,
       <<"emailAddress", "Supplier Email">>,
       <<"phone", "Supplier Phone">>,
       <<"siteName", "Site Name">>,
       <<"siteID", "Site ID">>,
       <<"additionalContactInfo", "Additional Contact Info">>,
       <<"zi_c_name", "Zoominfo Company Name">>,
       <<"zi_c_company_id", "Zoominfo Company ID">>,
       <<"zi_c_company_name", "Company HQ Name">>,
       <<"zi_c_phone", "Company Phone">>,
       <<"zi_c_url", "Website">>,
       <<"zi_c_linkedin_url", "Company LinkedIn URL">>,
       <<"jobTitle", "Contact Job Title">>,
       <<"zi_c_naics6", "6-digit NAICS Code">>,
       <<"sectorTitle", "Sector Title">>,
       <<"primaryIndustry", "Primary Industry">>,
       <<"zi_c_employees", "Number of Employees">>,
       <<"zi_c_street", "Company Street">>,
       <<"zi_c_city", "Company City">>,
       <<"zi_c_state", "Company State">>,
       <<"zi_c_zip", "Company Zip Code">>,
       <<"zi_c_country", "Company Country">>,
       <<"zi_c_location_id", "Company Location ID">>,
       <<"needsContact", "Needs New Contact">>,
       <<"newContactFound", "New Contact Found">>,
       <<"personId", "Contact Person ID">>,
       <<"contactMatchCriteria", "Contact Match Criteria">>,
       <<"company_match_criteria", "Company Match Criteria">>,
       <<"enrichmentStatus", "Enrichment Status">>,
       <<"errorMessage", "Error Message">> >>

(***************************************************************************)
(* Reading the tabular file (csv.reader, csv.DictReader).                  *)
(***************************************************************************)
Min(a, b) == IF a < b THEN a ELSE b

\* dict(zip(fieldnames, row)): a repeated field name keeps the later cell.
RECURSIVE ZipDict(_, _, _, _)
ZipDict(fieldnames, row, i, d) ==
    IF i > Min(Len(fieldnames), Len(row)) THEN d
    ELSE ZipDict(fieldnames, row, i + 1, DictSet(d, fieldnames[i], Str(row[i])))

\* for key in fieldnames[lr:]: d[key] = restval
RECURSIVE FillRest(_, _, _)
FillRest(fieldnames, i, d) ==
    IF i > Len(fieldnames) THEN d
    ELSE FillRest(fieldnames, i + 1, DictSet(d, fieldnames[i], None))

\* One row of DictReader: surplus cells go under restkey, missing cells are restval.
DictRow(fieldnames, row) ==
    LET d == ZipDict(fieldnames, row, 1, <<>>)
        lf == Len(fieldnames)
        lr == Len(row)
    IN  IF lf < lr THEN DictSet(d, NoneKey, List(SubSeq(row, lf + 1, lr)))
        ELSE IF lf > lr THEN FillRest(fieldnames, lr + 1, d)
        ELSE d

\* any((v or "").strip() for v in row.values()): "true", "false", or "raise"
\* when .strip() is applied to the list of surplus cells before a cell decided it.
RECURSIVE AnyStripped(_)
AnyStripped(d) ==
    IF d = <<>> THEN "false"
    ELSE LET v == Head(d)[2]
             w == IF Truthy(v) THEN v ELSE Empty
         IN  IF w.kind # "str" THEN "raise"
             ELSE IF strip(w.s) # <<>> THEN "true"
             ELSE AnyStripped(Tail(d))

\* header_mapping.get(key, key), csv_mapping.get(key, key)
Translate(table, key) == DictGet(table, key, key)

RECURSIVE MapHeaders(_, _)
MapHeaders(row, mapped_row) ==
    IF row = <<>> THEN mapped_row
    ELSE MapHeaders(Tail(row),
                    DictSet(mapped_row, Translate(header_mapping, Head(row)[1]), Head(row)[2]))

\* The defaults filled in only where the row has no such key (dict.setdefault).
RECURSIVE SetDefaults(_, _)
SetDefaults(d, other) ==
    IF other = <<>> THEN d
    ELSE SetDefaults(IF DictHas(d, Head(other)[1]) THEN d
                     ELSE DictSet(d, Head(other)[1], Head(other)[2]),
                     Tail(other))

InjectDefaultsKeepExisting(mapped_row) == SetDefaults(mapped_row, new_json_values)

\* mapped_row.update(new_json_values)
InjectDefaults(mapped_row) == DictUpdate(mapped_row, new_json_values)

\* The loop of csv_to_json over the rows after the header.
RECURSIVE ConvertRows(_, _, _)
ConvertRows(fieldnames, rows, data) ==
    IF rows = <<>> THEN [raised |-> FALSE, data |-> data]
    ELSE IF Head(rows) = <<>> THEN ConvertRows(fieldnames, Tail(rows), data)
    ELSE LET row == DictRow(fieldnames, Head(rows))
             any == AnyStripped(row)
         IN  IF any = "raise" THEN [raised |-> TRUE, data |-> data]
             ELSE IF any = "false" THEN ConvertRows(fieldnames, Tail(rows), data)
             ELSE ConvertRows(fieldnames, Tail(rows),
                              Append(data, InjectDefaults(MapHeaders(row, <<>>))))

\* any((field or "").strip() for field in row) over the raw cells of csv.reader
RawNonBlank(row) == \E i \in 1..Len(row) : strip(row[i]) # <<>>

RECURSIVE CountRows(_)
CountRows(rows) ==
    IF rows = <<>> THEN 0
    ELSE (IF RawNonBlank(Head(rows)) THEN 1 ELSE 0) + CountRows(Tail(rows))

(***************************************************************************)
(* The document file (json.dump, json.load).                               *)
(***************************************************************************)
JsonKey(k) == IF k = NoneKey THEN "null" ELSE k

JsonValue(v) ==
    CASE v.kind = "str" -> [kind |-> "string", s |-> v.s, items |-> <<>>]
      [] v.kind = "none" -> [kind |-> "null", s |-> <<>>, items |-> <<>>]
      [] v.kind = "list" -> [kind |-> "array", s |-> <<>>, items |-> v.items]

PyValue(j) ==
    CASE j.kind = "string" -> Str(j.s)
      [] j.kind = "null" -> None
      [] j.kind = "array" -> List(j.items)

\* An object is written member by member: two keys that serialise alike both appear.
JsonDump(data) ==
    [i \in 1..Len(data) |->
        [m \in 1..Len(data[i]) |-> <<JsonKey(data[i][m][1]), JsonValue(data[i][m][2])>>]]

RECURSIVE LoadObject(_, _)
LoadObject(members, d) ==
    IF members = <<>> THEN d
    ELSE LoadObject(Tail(members), DictSet(d, Head(members)[1], PyValue(Head(members)[2])))

JsonLoad(text) == [i \in 1..Len(text) |-> LoadObject(text[i], <<>>)]

(***************************************************************************)
(* json_to_csv: the column order.                                          *)
(***************************************************************************)
\* all_keys taken from the first entry alone.
AllKeysOfFirstEntry(data) == IF data = <<>> THEN {} ELSE KeySet(data[1])

\* all_keys: the union of the keys of every entry
AllKeys(data) == UNION {KeySet(data[i]) : i \in 1..Len(data)}

RECURSIVE FilterIn(_, _)
FilterIn(keys, set) ==
    IF keys = <<>> THEN <<>>
    ELSE (IF Head(keys) \in set THEN <<Head(keys)>> ELSE <<>>) \o FilterIn(Tail(keys), set)

Range(seq) == {seq[i] : i \in 1..Len(seq)}

\* The inner loop over one entry's keys: a key not in seen is added to it and appended.
RECURSIVE ScanKeys(_, _)
ScanKeys(keys, st) ==
    IF keys = <<>> THEN st
    ELSE IF Head(keys) \in st.seen
         THEN ScanKeys(Tail(keys), st)
         ELSE ScanKeys(Tail(keys), [seen |-> st.seen \cup {Head(keys)},
                                    unmapped_keys |-> Append(st.unmapped_keys, Head(keys))])

\* The outer loop over the entries.
RECURSIVE ScanEntries(_, _)
ScanEntries(data, st) ==
    IF data = <<>> THEN st
    ELSE ScanEntries(Tail(data), ScanKeys(DictKeys(Head(data)), st))

\* The keys the egress table knows, in order of first appearance instead of
\* the table's order.
MappedKeysByAppearance(data) ==
    FilterIn(ScanEntries(data, [seen |-> {}, unmapped_keys |-> <<>>]).unmapped_keys,
             Range(DictKeys(csv_mapping)))

\* mapped_keys = [k for k in csv_mapping if k in all_keys]
MappedKeys(data) == FilterIn(DictKeys(csv_mapping), AllKeys(data))

UnmappedKeys(data) ==
    ScanEntries(data, [seen |-> Range(MappedKeys(data)), unmapped_keys |-> <<>>]).unmapped_keys

CombinedKeys(data) == MappedKeys(data) \o UnmappedKeys(data)

\* The headers left as the document's field names.
HeadersUntranslated(data) == CombinedKeys(data)

\* headers = [csv_mapping.get(key, key) for key in combined_keys]
Headers(data) ==
    LET combined_keys == CombinedKeys(data)
    IN  [i \in 1..Len(combined_keys) |-> Translate(csv_mapping, combined_keys[i])]

(***************************************************************************)
(* json_to_csv: the rows (csv.DictWriter).                                 *)
(***************************************************************************)
\* row = {csv_mapping.get(k, k): v for k, v in entry.items()}
RECURSIVE RemapEntry(_, _)
RemapEntry(entry, row) ==
    IF entry = <<>> THEN row
    ELSE RemapEntry(Tail(entry),
                    DictSet(row, Translate(csv_mapping, Head(entry)[1]), Head(entry)[2]))

RECURSIVE JoinRepr(_)
JoinRepr(items) ==
    IF items = <<>> THEN <<>>
    ELSE <<"'">> \o Head(items) \o <<"'">>
         \o (IF Tail(items) = <<>> THEN <<>> ELSE <<",", " ">> \o JoinRepr(Tail(items)))

\* The text the csv writer puts in a cell: None is empty, a str is itself,
\* anything else is str(value).
CellText(v) ==
    CASE v.kind = "str" -> v.s
      [] v.kind = "none" -> <<>>
      [] v.kind = "list" -> <<"[">> \o JoinRepr(v.items) \o <<"]">>

\* DictWriter._dict_to_list: rowdict.get(key, restval) for key in fieldnames
DictToList(fieldnames, rowdict) ==
    [c \in 1..Len(fieldnames) |-> CellText(DictGet(rowdict, fieldnames[c], Empty))]

\* extrasaction = "raise": the keys of the row that are no fieldname
WrongFields(fieldnames, rowdict) == KeySet(rowdict) \ Range(fieldnames)

\* The utf-8 codec refuses a lone surrogate.
Encodable(cells) ==
    \A c \in 1..Len(cells) : \A i \in 1..Len(cells[c]) : cells[c][i] # Surrogate

\* for entry in data: csv_writer.writerow(row), stopping at the first exception.
RECURSIVE WriteRows(_, _, _)
WriteRows(fieldnames, data, rows) ==
    IF data = <<>> THEN [error |-> "none", rows |-> rows]
    ELSE LET rowdict == RemapEntry(Head(data), <<>>)
             cells == DictToList(fieldnames, rowdict)
         IN  IF WrongFields(fieldnames, rowdict) # {}
             THEN [error |-> "ValueError", rows |-> rows]
             ELSE IF ~Encodable(cells)
             THEN [error |-> "UnicodeEncodeError", rows |-> rows]
             ELSE WriteRows(fieldnames, Tail(data), Append(rows, cells))

(***************************************************************************)
(* The files and the faults of the environment.                            *)
(***************************************************************************)
Absent == [state |-> "absent", text |-> <<>>]

NoTable == [state |-> "absent", header |-> <<>>, rows |-> <<>>]

\* What the environment does to one call: nothing, an input that cannot be read
\* or decoded, an output that cannot be opened, or a write that fails after
\* `after` of the n records have reached the file.
Faults(n) ==
    {[kind |-> k, after |-> 0] : k \in {"none", "read", "open"}}
        \cup {[kind |-> "write", after |-> i] : i \in 0..(n - 1)}

(***************************************************************************)
(* The inputs.                                                             *)
(***************************************************************************)
HeaderNames == {"Supplier Company", "companyName", "enrichmentStatus"}

\* The template's first column, alone or followed by one more column.
HeaderRows == {<<"Supplier Company">>} \cup {<<"Supplier Company", n>> : n \in HeaderNames}

Cells == {<<" ">>, <<"x">>}

SeqsUpTo(S, n) == UNION {[1..m -> S] : m \in 0..n}

\* A header row, then at most MaxRows rows, each with up to one cell more than the header.
CsvFiles ==
    UNION {[header : {h}, rows : SeqsUpTo(SeqsUpTo(Cells, Len(h) + 1), MaxRows)] :
              h \in HeaderRows}

FieldNames == {"companyName", "firstName", "Supplier Company", "extra"}

CollidingNames == {"companyName", "Supplier Company"}

Values == {Str(<<"a">>), Str(<<"b">>), Str(<<Surrogate>>)}

\* Entries of at most two fields with distinct names.
Entries(names, values) ==
    {e \in SeqsUpTo(names \X values, 2) :
        \A i, j \in 1..Len(e) : e[i][1] = e[j][1] => i = j}

\* The documents json_to_csv is given after the enrichment passes: at most
\* MaxRecords flat records.
Documents ==
    SeqsUpTo(Entries(FieldNames, {Str(<<"a">>)}), MaxRecords)
        \cup SeqsUpTo(Entries(CollidingNames, Values), MaxRecords)

(***************************************************************************)
(* The operations, in the order main() calls them.  The enrichment passes  *)
(* main() runs between csv_to_json and json_to_csv are other modules: Spec *)
(* is the round trip without them, SpecEgress is json_to_csv on any        *)
(* document they may leave.                                                *)
(***************************************************************************)
Init ==
    /\ csvFile \in CsvFiles
    /\ recordCount = 0
    /\ jsonFile = Absent
    /\ csvOut = NoTable
    /\ pc = "start"
    /\ err = "none"

count_records ==
    /\ pc = "start"
    /\ recordCount' = CountRows(csvFile.rows)
    /\ pc' = "counted"
    /\ UNCHANGED <<csvFile, jsonFile, csvOut, err>>

csv_to_json ==
    /\ pc = "counted"
    /\ LET r == ConvertRows(csvFile.header, csvFile.rows, <<>>)
       IN  \E fault \in Faults(Len(r.data)) :
               IF fault.kind = "read"
               THEN /\ err' = "OSError" /\ pc' = "failed" /\ jsonFile' = jsonFile
               ELSE IF r.raised
               THEN /\ err' = "AttributeError" /\ pc' = "failed" /\ jsonFile' = jsonFile
               ELSE IF fault.kind = "open"
               THEN /\ err' = "OSError" /\ pc' = "failed" /\ jsonFile' = jsonFile
               ELSE IF fault.kind = "write"
               THEN /\ err' = "OSError" /\ pc' = "failed"
                    /\ jsonFile' = [state |-> "partial",
                                    text |-> SubSeq(JsonDump(r.data), 1, fault.after)]
               ELSE /\ err' = "none" /\ pc' = "converted"
                    /\ jsonFile' = [state |-> "complete", text |-> JsonDump(r.data)]
    /\ UNCHANGED <<csvFile, recordCount, csvOut>>

json_to_csv ==
    /\ pc = "converted"
    /\ LET data == JsonLoad(jsonFile.text)
           headers == Headers(data)
           w == WriteRows(headers, data, <<>>)
       IN  \E fault \in Faults(Len(data)) :
               IF fault.kind \in {"read", "open"}
               THEN /\ err' = "OSError" /\ pc' = "failed" /\ csvOut' = csvOut
               ELSE IF fault.kind = "write" /\ fault.after <= Len(w.rows)
               THEN /\ err' = "OSError" /\ pc' = "failed"
                    /\ csvOut' = [state |-> "partial", header |-> headers,
                                  rows |-> SubSeq(w.rows, 1, fault.after)]
               ELSE IF w.error # "none"
               THEN /\ err' = w.error /\ pc' = "failed"
                    /\ csvOut' = [state |-> "partial", header |-> headers, rows |-> w.rows]
               ELSE /\ err' = "none" /\ pc' = "done"
                    /\ csvOut' = [state |-> "complete", header |-> headers, rows |-> w.rows]
    /\ UNCHANGED <<csvFile, recordCount, jsonFile>>

Next == count_records \/ csv_to_json \/ json_to_csv

Spec == Init /\ [][Next]_vars

\* json_to_csv alone, on any document.
InitEgress ==
    /\ csvFile = [header |-> <<>>, rows |-> <<>>]
    /\ recordCount = 0
    /\ jsonFile \in {[state |-> "complete", text |-> JsonDump(d)] : d \in Documents}
    /\ csvOut = NoTable
    /\ pc = "converted"
    /\ err = "none"

NextEgress == json_to_csv

SpecEgress == InitEgress /\ [][NextEgress]_vars

(***************************************************************************)
(* Vocabulary of the properties.                                           *)
(***************************************************************************)
\* The document json_to_csv reads.
Doc == JsonLoad(jsonFile.text)

\* The field names of a document, and those the egress table knows.
FieldUnion(data) ==
    UNION {{data[i][m][1] : m \in 1..Len(data[i])} : i \in 1..Len(data)}

TableKeys(table) == {table[i][1] : i \in 1..Len(table)}

KnownFields(data) == {k \in FieldUnion(data) : k \in TableKeys(csv_mapping)}

OtherFields(data) == FieldUnion(data) \ KnownFields(data)

TableIndex(table, k) == CHOOSE i \in 1..Len(table) : table[i][1] = k

FirstEntry(data, k) ==
    CHOOSE i \in 1..Len(data) :
        /\ DictHas(data[i], k)
        /\ \A i2 \in 1..(i - 1) : ~DictHas(data[i2], k)

PosIn(entry, k) == CHOOSE m \in 1..Len(entry) : entry[m][1] = k

\* k1 occurs for the first time before k2 does, scanning records in sequence
\* and the keys of a record in order.
Earlier(data, k1, k2) ==
    LET i1 == FirstEntry(data, k1)
        i2 == FirstEntry(data, k2)
    IN  \/ i1 < i2
        \/ i1 = i2 /\ PosIn(data[i1], k1) < PosIn(data[i1], k2)

\* The pass-through names in order of first appearance, as a set of ordered pairs.
OtherOrder(data) ==
    {<<k1, k2>> \in OtherFields(data) \X OtherFields(data) : Earlier(data, k1, k2)}

Reverse(seq) == [i \in 1..Len(seq) |-> seq[Len(seq) + 1 - i]]

Perms(n) == {p \in [1..n -> 1..n] : \A i, j \in 1..n : p[i] = p[j] => i = j}

\* The documents that hold the records of data in another order, each record
\* with its keys in the given or in the opposite order: all have data's field union.
Rearrangements(data) ==
    {[i \in 1..Len(data) |-> IF flip[i] THEN Reverse(data[p[i]]) ELSE data[p[i]]] :
        p \in Perms(Len(data)), flip \in [1..Len(data) -> BOOLEAN]}

\* The rows of the tabular file that have a cell which is not blank.
RECURSIVE Survivors(_)
Survivors(rows) ==
    IF rows = <<>> THEN <<>>
    ELSE (IF \E j \in 1..Len(Head(rows)) : strip(Head(rows)[j]) # <<>>
          THEN <<Head(rows)>> ELSE <<>>) \o Survivors(Tail(rows))

(***************************************************************************)
(* Properties of json_to_csv, checked under SpecEgress.                    *)
(***************************************************************************)

\* C2: the header json_to_csv writes is the egress-table keys that occur in
\* the document, in the table's order and each written as its translation,
\* followed by every other field name, in order of first appearance and
\* written unchanged.
ColumnOrder ==
    csvOut.state # "absent" =>
        LET known == KnownFields(Doc)
            other == OtherFields(Doc)
            h == csvOut.header
        IN  /\ Len(h) = Cardinality(known) + Cardinality(other)
            /\ \A k \in known :
                   h[1 + Cardinality({k2 \in known :
                          TableIndex(csv_mapping, k2) < TableIndex(csv_mapping, k)})]
                       = csv_mapping[TableIndex(csv_mapping, k)][2]
            /\ \A k \in other :
                   h[Cardinality(known) + 1
                       + Cardinality({k2 \in other : Earlier(Doc, k2, k)})] = k

\* C2 witness: a document whose first record introduces a pass-through name and
\* then firstName, and whose second record introduces companyName, has been written.
ColumnOrderWitness ==
    /\ csvOut.state = "complete"
    /\ Len(Doc) = 2
    /\ DictKeys(Doc[1]) = <<"extra", "firstName">>
    /\ DictKeys(Doc[2]) = <<"companyName">>
    /\ csvOut.header = <<"Supplier Company", "Supplier First Name", "extra">>

\* C3 as stated: any rearrangement of the document's records and of the keys
\* inside them, which leaves the union of field names as it is, gives the same
\* header sequence.
HeaderSameForEqualUnion ==
    csvOut.state = "complete" =>
        \A d2 \in Rearrangements(Doc) : Headers(d2) = csvOut.header

\* C3 amended: documents with the same union of field names get the same
\* leading headers, those of the egress-table keys; the whole header sequence
\* is the same when they also first introduce the other names in the same order.
KnownHeadersSameForEqualUnion ==
    csvOut.state = "complete" =>
        LET doc == Doc
            union == FieldUnion(doc)
            n == Cardinality(KnownFields(doc))
            order == OtherOrder(doc)
        IN  \A d2 \in Rearrangements(doc) :
                LET h2 == Headers(d2)
                IN  /\ FieldUnion(d2) = union
                    /\ Len(h2) = Len(csvOut.header)
                    /\ SubSeq(h2, 1, n) = SubSeq(csvOut.header, 1, n)
                    /\ (OtherOrder(d2) = order => h2 = csvOut.header)

\* C3 witness: a written document with two egress-table keys whose
\* rearrangements do not all give the header it got.
KnownHeadersWitness ==
    /\ csvOut.state = "complete"
    /\ Cardinality(KnownFields(Doc)) = 2
    /\ \E d2 \in Rearrangements(Doc) :
           /\ Headers(d2) # csvOut.header
           /\ FirstEntry(d2, "firstName") < FirstEntry(d2, "companyName")
    /\ FirstEntry(Doc, "companyName") < FirstEntry(Doc, "firstName")

\* C9: writing a row never fails for an unknown column, since every key of
\* every record translates to one of the headers; a call that succeeds has
\* written one row per record, in document order, each cell holding the value
\* of a field of that record which translates to the column, and an empty cell
\* where the record has no such field.
RowEmission ==
    /\ err # "ValueError"
    /\ csvOut.state # "absent" =>
           \A i \in 1..Len(Doc) : \A k \in KeySet(Doc[i]) :
               Translate(csv_mapping, k) \in Range(csvOut.header)
    /\ csvOut.state = "complete" =>
           /\ Len(csvOut.rows) = Len(Doc)
           /\ \A i \in 1..Len(Doc) :
                  /\ Len(csvOut.rows[i]) = Len(csvOut.header)
                  /\ \A c \in 1..Len(csvOut.header) :
                         LET from == {m \in 1..Len(Doc[i]) :
                                 Translate(csv_mapping, Doc[i][m][1]) = csvOut.header[c]}
                         IN  IF from = {}
                             THEN csvOut.rows[i][c] = <<>>
                             ELSE \E m \in from : csvOut.rows[i][c] = CellText(Doc[i][m][2])

\* C9 witness: two records with different fields were written, so each row
\* has an empty cell where its record has no field.
RowEmissionWitness ==
    /\ csvOut.state = "complete"
    /\ Len(Doc) = 2
    /\ DictKeys(Doc[1]) = <<"firstName">>
    /\ DictKeys(Doc[2]) = <<"extra", "companyName">>
    /\ csvOut.rows = << <<<<>>, <<"a">>, <<>>>>, <<<<"a">>, <<>>, <<"a">>>> >>

\* C10: the header json_to_csv writes repeats no column name, no two fields of
\* a record go to the same column, and so a call that succeeds has put every
\* field value of every record in its row.
HeaderUniqueAndValuesKept ==
    csvOut.state # "absent" =>
        /\ \A c1, c2 \in 1..Len(csvOut.header) :
               csvOut.header[c1] = csvOut.header[c2] => c1 = c2
        /\ \A i \in 1..Len(Doc) : \A m1, m2 \in 1..Len(Doc[i]) :
               Translate(csv_mapping, Doc[i][m1][1]) = Translate(csv_mapping, Doc[i][m2][1])
                   => m1 = m2
        /\ csvOut.state = "complete" =>
               \A i \in 1..Len(Doc) : \A m \in 1..Len(Doc[i]) :
                   \E c \in 1..Len(csvOut.header) :
                       csvOut.rows[i][c] = CellText(Doc[i][m][2])

(***************************************************************************)
(* Properties of the whole run, checked under Spec.                        *)
(***************************************************************************)

\* C1: after csv_to_json and then json_to_csv, the output table has one row
\* per non-blank input row, in order, and for every input column whose header
\* is a key of the ingest table (and whose document name is no key of the
\* defaults) that row carries the input cell under the same header.
RoundTripKnownFields ==
    pc = "done" =>
        LET kept == Survivors(csvFile.rows)
        IN  /\ Len(csvOut.rows) = Len(kept)
            /\ \A i \in 1..Len(kept) :
                   \A j \in 1..Min(Len(csvFile.header), Len(kept[i])) :
                       (/\ csvFile.header[j] \in TableKeys(header_mapping)
                        /\ Translate(header_mapping, csvFile.header[j])
                               \notin TableKeys(new_json_values))
                           => \E c \in 1..Len(csvOut.header) :
                                  /\ csvOut.header[c] = csvFile.header[j]
                                  /\ csvOut.rows[i][c] = kept[i][j]

\* C4: the number count_records reports is the number of records csv_to_json
\* writes for the same file, and csv_to_json raises on no row.
RecordCounterConsistent ==
    /\ err # "AttributeError"
    /\ pc \in {"converted", "done"} => recordCount = Len(jsonFile.text)

\* C5: csv_to_json writes one record per row that has a raw cell which is not
\* blank, in the order of those rows, and raises on no row.
RowFiltering ==
    /\ err # "AttributeError"
    /\ pc \in {"converted", "done"} =>
           LET kept == Survivors(csvFile.rows)
           IN  /\ Len(Doc) = Len(kept)
               /\ \A i \in 1..Len(kept) :
                      \A j \in 1..Min(Len(csvFile.header), Len(kept[i])) :
                          \E m \in 1..Len(Doc[i]) : Doc[i][m][2] = Str(kept[i][j])

\* C6: every record csv_to_json has written holds every key of the defaults
\* with its default value, whatever the row held under that name.
DefaultOverwrite ==
    \A i \in 1..Len(jsonFile.text) :
        \A n \in 1..Len(new_json_values) :
            /\ \E m \in 1..Len(jsonFile.text[i]) :
                   jsonFile.text[i][m][1] = new_json_values[n][1]
            /\ \A m \in 1..Len(jsonFile.text[i]) :
                   jsonFile.text[i][m][1] = new_json_values[n][1]
                       => PyValue(jsonFile.text[i][m][2]) = new_json_values[n][2]

\* C6 witness: the file has a column named enrichmentStatus, a row holds "x"
\* in it, and the record of that row has been written.
DefaultOverwriteWitness ==
    /\ jsonFile.state = "complete"
    /\ csvFile.header = <<"Supplier Company", "enrichmentStatus">>
    /\ csvFile.rows = << <<<<"x">>, <<"x">>>> >>
    /\ Len(jsonFile.text) = 1

\* C7: a call that has failed leaves no output file that holds part of a
\* document or part of a table.
NoPartialOutput ==
    pc = "failed" => jsonFile.state # "partial" /\ csvOut.state # "partial"

\* C8: every value of the ingest table is a key of the egress table, so every
\* field name a written record got from the ingest table has an egress
\* translation.
TableConsistency ==
    /\ \A i \in 1..Len(header_mapping) :
           header_mapping[i][2] \in TableKeys(csv_mapping)
    /\ \A i \in 1..Len(Doc) : \A j \in 1..Len(csvFile.header) :
           csvFile.header[j] \in TableKeys(header_mapping)
               => /\ DictHas(Doc[i], Translate(header_mapping, csvFile.header[j]))
                  /\ Translate(header_mapping, csvFile.header[j]) \in TableKeys(csv_mapping)

\* C8 witness: a record was written for a row of a file with the column
\* Supplier Company, and the output table has that column again.
TableConsistencyWitness ==
    /\ pc = "done"
    /\ csvFile.header = <<"Supplier Company">>
    /\ Len(Doc) = 1
    /\ DictHas(Doc[1], "companyName")
    /\ csvOut.header[1] = "Supplier Company"

====
